---- MODULE Spec2Model ----
(***************************************************************************)
(* TermTunes (src/termtunes/cli.py): search a music catalog, let the user  *)
(* pick one result, hand its URL to mpv.                                   *)
(*                                                                         *)
(* Python strings are sequences of one-character strings, so that          *)
(* str.strip(), int(), and f-string formatting are computed, not assumed.  *)
(* Python values that may be None are tagged records: None, or S(chars).   *)
(***************************************************************************)
EXTENDS Integers, Sequences, FiniteSets, TLC

\* ------------------------------------------------------------------ bounds
\* Most lines of standard input that precede end-of-input.
MaxLines == 3
\* Most items the external catalog returns to one search of a session.
MaxCatalog == 2
\* Most items the external catalog returns in the provider-only specification.
MaxLiveCatalog == 2
\* Longest query given to the mock provider in the provider-only specification.
MaxQueryLen == 2

\* ------------------------------------------------------------ Python values
None == [t |-> "None"]
S(chars) == [t |-> "str", s |-> chars]
\* bool(v) for None and str values: None and "" are falsy.
Truthy(v) == v.t = "str" /\ v.s # <<>>

Digits == <<"0", "1", "2", "3", "4", "5", "6", "7", "8", "9">>
DigitChars == {Digits[i] : i \in 1..10}
DigitVal(c) == (CHOOSE i \in 1..10 : Digits[i] = c) - 1
IsSpace(c) == c = " "

\* str.strip(): drop leading and trailing whitespace.
RECURSIVE LStrip(_)
LStrip(s) == IF s # <<>> /\ IsSpace(Head(s)) THEN LStrip(Tail(s)) ELSE s
RECURSIVE RStrip(_)
RStrip(s) == IF s # <<>> /\ IsSpace(s[Len(s)]) THEN RStrip(SubSeq(s, 1, Len(s) - 1)) ELSE s
Strip(s) == RStrip(LStrip(s))

\* str(n) of a non-negative int, as an f-string formats it.
RECURSIVE IntToStr(_)
IntToStr(n) == IF n < 10 THEN <<Digits[n + 1]>> ELSE IntToStr(n \div 10) \o <<Digits[(n % 10) + 1]>>

\* The digits of an int() literal: decimal digits, single underscores allowed
\* between digits only.
RECURSIVE DigitsValue(_, _)
DigitsValue(s, acc) ==
    IF s = <<>> THEN acc
    ELSE IF Head(s) = "_" THEN DigitsValue(Tail(s), acc)
    ELSE DigitsValue(Tail(s), 10 * acc + DigitVal(Head(s)))
WellFormedDigits(s) ==
    /\ s # <<>>
    /\ \A i \in 1..Len(s) : s[i] \in DigitChars \cup {"_"}
    /\ s[1] # "_" /\ s[Len(s)] # "_"
    /\ \A i \in 1..(Len(s) - 1) : ~(s[i] = "_" /\ s[i + 1] = "_")
\* int(s): [ok |-> TRUE, val |-> n], or ok = FALSE for ValueError.
ParseInt(s) ==
    LET t == Strip(s)
        signed == t # <<>> /\ Head(t) \in {"+", "-"}
        body == IF signed THEN Tail(t) ELSE t
    IN IF WellFormedDigits(body)
       THEN [ok |-> TRUE,
             val |-> IF signed /\ Head(t) = "-" THEN 0 - DigitsValue(body, 0) ELSE DigitsValue(body, 0)]
       ELSE [ok |-> FALSE, val |-> 0]

\* --------------------------------------------------------------- exceptions
\* Classes raised in this program, and whether `except Exception` catches them.
IsException(cls) == cls \in {"RuntimeError", "CalledProcessError", "OSError", "Exception"}
NoExc == [cls |-> "none", msg |-> "", code |-> 0]
Raise(cls, msg) == [cls |-> cls, msg |-> msg, code |-> 0]

\* ------------------------------------------------------------ descriptors
UrlPrefix == <<"h","t","t","p","s",":","/","/","w","w","w",".","y","o","u","t","u","b","e",
               ".","c","o","m","/","w","a","t","c","h","?","v","=">>
UnknownTitle == <<"U","n","k","n","o","w","n"," ","T","i","t","l","e">>
UnknownArtist == <<"U","n","k","n","o","w","n"," ","A","r","t","i","s","t">>
Song(title, artist, url) == [title |-> title, artist |-> artist, url |-> url]

\* Mutant: descriptors numbered from 0.
MockSongZeroBased(query, i) ==
    Song(query \o <<" ","(","M","o","c","k"," ">> \o IntToStr(i) \o <<")">>,
         <<"M","o","c","k"," ","A","r","t","i","s","t"," ">> \o IntToStr(i),
         UrlPrefix \o <<"m","o","c","k">> \o IntToStr(i))
\* search_with_mock: one descriptor per i in range(limit), numbered i+1.
MockSong(query, i) ==
    Song(query \o <<" ","(","M","o","c","k"," ">> \o IntToStr(i + 1) \o <<")">>,
         <<"M","o","c","k"," ","A","r","t","i","s","t"," ">> \o IntToStr(i + 1),
         UrlPrefix \o <<"m","o","c","k">> \o IntToStr(i + 1))
search_with_mock(query, limit) == [k \in 1..limit |-> MockSong(query, k - 1)]

\* search_with_ytmusic, lines 46-57: the descriptor of one catalog item.
\* An item is [title, artists, videoId]: title and videoId are None or S(..),
\* artists is None or [t |-> "list", l |-> <<elements>>], an element being
\* S(..) (not a dict) or [t |-> "dict", name |-> None or S(..)].
ArtistOf(artists) ==
    IF /\ artists.t = "list"
       /\ artists.l # <<>>
       /\ artists.l[1].t = "dict"
       /\ Truthy(artists.l[1].name)
    THEN artists.l[1].name.s
    ELSE UnknownArtist
ItemSong(item) ==
    Song(IF Truthy(item.title) THEN item.title.s ELSE UnknownTitle,
         ArtistOf(item.artists),
         UrlPrefix \o item.videoId.s)
RECURSIVE ItemsToSongs(_)
ItemsToSongs(items) ==
    IF items = <<>> THEN <<>>
    ELSE IF ~Truthy(Head(items).videoId) THEN ItemsToSongs(Tail(items))
    ELSE <<ItemSong(Head(items))>> \o ItemsToSongs(Tail(items))
Prefix(seq, n) == SubSeq(seq, 1, IF n < Len(seq) THEN n ELSE Len(seq))
\* Mutant: items without an identifier are dropped before the limit is applied.
search_with_ytmusic_filter_first(results, limit) ==
    Prefix(ItemsToSongs(IF results.t = "list" THEN results.l ELSE <<>>), limit)
\* `results` is what ytm.search returned: None, or [t |-> "list", l |-> items].
search_with_ytmusic(results, limit) ==
    ItemsToSongs(Prefix(IF results.t = "list" THEN results.l ELSE <<>>, limit))

\* play_with_mpv(url): `found` is shutil.which("mpv"), `run` is what
\* subprocess.run does when launched: NoExc (exit 0) or the exception it raises.
\* Result: the exception leaving play_with_mpv, what it printed, and whether
\* the player was launched.
Msg(text) == [text |-> text, detail |-> <<>>]
MsgD(text, detail) == [text |-> text, detail |-> detail]
\* Mutant: the KeyboardInterrupt handler of lines 109-110 is missing.
play_with_mpv_unhandled_interrupt(found, run) ==
    IF ~found
    THEN [exc |-> Raise("RuntimeError", "mpv not found. Please install it to play songs."),
          out |-> <<>>, launched |-> FALSE]
    ELSE IF run.cls = "CalledProcessError"
    THEN [exc |-> NoExc, out |-> <<MsgD("mpv exited with error code {}", <<IntToStr(run.code)>>)>>,
          launched |-> TRUE]
    ELSE [exc |-> run, out |-> <<>>, launched |-> TRUE]
\* Mutant: the CalledProcessError handler of lines 107-108 is missing.
play_with_mpv_unhandled_exit(found, run) ==
    IF ~found
    THEN [exc |-> Raise("RuntimeError", "mpv not found. Please install it to play songs."),
          out |-> <<>>, launched |-> FALSE]
    ELSE IF run.cls = "KeyboardInterrupt"
    THEN [exc |-> NoExc, out |-> <<Msg("Stopped by user.")>>, launched |-> TRUE]
    ELSE [exc |-> run, out |-> <<>>, launched |-> TRUE]
play_with_mpv(found, run) ==
    IF ~found
    THEN [exc |-> Raise("RuntimeError", "mpv not found. Please install it to play songs."),
          out |-> <<>>, launched |-> FALSE]
    ELSE IF run.cls = "CalledProcessError"
    THEN [exc |-> NoExc, out |-> <<MsgD("mpv exited with error code {}", <<IntToStr(run.code)>>)>>,
          launched |-> TRUE]
    ELSE IF run.cls = "KeyboardInterrupt"
    THEN [exc |-> NoExc, out |-> <<Msg("Stopped by user.")>>, launched |-> TRUE]
    ELSE [exc |-> run, out |-> <<>>, launched |-> TRUE]

\* The numbered listing printed at lines 130-131 and 81-82.
Listing(songs) == [i \in 1..Len(songs) |-> MsgD("{}. {} - {}", <<IntToStr(i), songs[i].title, songs[i].artist>>)]

\* ------------------------------------------------------------------- inputs
\* argparse choices of --limit (line 157).
LimitChoices == {1, 3, 5, 7, 10}
\* Positional query values: absent (None), "", " ", "a", " a ".
QueryArgs == {None, S(<<>>), S(<<" ">>), S(<<"a">>), S(<<" ", "a", " ">>)}
\* Lines typed at the query prompt.
QueryLines == {<<>>, <<" ">>, <<"a">>, <<" ", "a", " ">>}
\* Lines typed at the selection prompt.
SelectLines ==
    {<<>>, <<" ">>, <<"1">>, <<" ", "2", " ">>, <<"3">>, <<"4">>, <<"0">>, <<"-", "1">>, <<"+", "1">>,
     <<"1", "0">>, <<"1", "1">>, <<"1", "_", "0">>, <<"a">>, <<"1", "a">>, <<"1", ".", "5">>, <<"_", "1">>}
\* Queries given to the mock provider in the provider-only specification.
MockQueries == UNION {[1..k -> {" ", "a", "b"}] : k \in 0..MaxQueryLen}
\* What a read of standard input yields besides a line.
EOF == [t |-> "EOF"]
INT == [t |-> "INT"]
Line(chars) == [t |-> "line", s |-> chars]

\* Catalog items of a session's search.
Dict(name) == [t |-> "dict", name |-> name]
List(l) == [t |-> "list", l |-> l]
Item(title, artists, videoId) == [title |-> title, artists |-> artists, videoId |-> videoId]
SessionItems ==
    {Item(S(<<"T">>), List(<<Dict(S(<<"A">>))>>), S(<<"x">>)),
     Item(S(<<"T">>), List(<<Dict(S(<<"A">>))>>), None),
     Item(None, None, S(<<"y">>))}
\* Catalog items of the provider-only specification: every title and artists
\* shape with an identifier, and every identifier shape.
LiveTitles == {None, S(<<>>), S(<<"T">>)}
LiveArtists ==
    {None, List(<<>>), List(<<S(<<"s">>)>>), List(<<Dict(None)>>), List(<<Dict(S(<<>>))>>),
     List(<<Dict(S(<<"A">>))>>), List(<<Dict(S(<<"A">>)), Dict(S(<<"B">>))>>),
     List(<<S(<<"s">>), Dict(S(<<"B">>))>>)}
LiveItems ==
    {Item(t, a, S(<<"x">>)) : t \in LiveTitles, a \in LiveArtists}
    \cup {Item(S(<<"T">>), List(<<Dict(S(<<"A">>))>>), v) : v \in {None, S(<<>>), S(<<"y">>)}}
    \cup {Item(None, None, None)}
SeqsUpTo(set, n) == UNION {[1..k -> set] : k \in 0..n}
\* What the catalog's search call does: return None or a list, or raise.
SearchOutcomes ==
    {[exc |-> NoExc, results |-> None]}
    \cup {[exc |-> NoExc, results |-> List(l)] : l \in SeqsUpTo(SessionItems, MaxCatalog)}
    \cup {[exc |-> Raise(c, "search failed"), results |-> None] : c \in {"Exception", "KeyboardInterrupt"}}
\* What subprocess.run does once mpv is launched.
RunOutcomes ==
    {NoExc, [cls |-> "CalledProcessError", msg |-> "", code |-> 2],
     Raise("KeyboardInterrupt", ""), Raise("OSError", "exec failed")}

\* -------------------------------------------------------------------- state
VARIABLES
    pc,          \* position in main / search_and_play / choose_song
    args,        \* argparse namespace: query, mock, limit, auto, no_play
    YTMusic,     \* "class" if the import at line 32 succeeded, "None" otherwise
    query,       \* the query main passes to search_and_play
    results,     \* what ytm.search returned (None until then)
    searchExc,   \* the exception the provider raised (NoExc if none)
    songs,       \* search_and_play's songs
    idx,         \* choose_song's return value: None or [t |-> "int", v |-> n]
    lastRead,    \* the last value read from standard input
    stdinRead,   \* lines of standard input consumed so far
    out,         \* lines printed
    calls,       \* how often each function was entered; reads by choose_song
    playArg,     \* the url given to play_with_mpv
    playEnv,     \* what play_with_mpv met: [found, run], None before
    ret,         \* search_and_play's return value
    exc,         \* exception propagating out of main
    exitStatus   \* process exit status, -1 while running

vars == <<pc, args, YTMusic, query, results, searchExc, songs, idx, lastRead, stdinRead, out, calls,
          playArg, playEnv, ret, exc, exitStatus>>

PyInt(n) == [t |-> "int", v |-> n]
Returned(song) == [t |-> "song", song |-> song]
NoCalls == [session |-> 0, mock |-> 0, ytm |-> 0, choose |-> 0, reads |-> 0, play |-> 0, launched |-> 0]
Bump(c, f) == [c EXCEPT ![f] = @ + 1]

Blank ==
    /\ query = <<>>
    /\ results = None
    /\ searchExc = NoExc
    /\ songs = <<>>
    /\ idx = None
    /\ lastRead = None
    /\ stdinRead = 0
    /\ out = <<>>
    /\ calls = NoCalls
    /\ playArg = None
    /\ playEnv = None
    /\ ret = None
    /\ exc = NoExc
    /\ exitStatus = -1

ArgSets == [query : QueryArgs, mock : BOOLEAN, limit : LimitChoices, auto : BOOLEAN, no_play : BOOLEAN]

\* The state once parser.parse_args has succeeded (line 160).
Init ==
    /\ pc = "main"
    /\ args \in ArgSets
    /\ YTMusic \in {"class", "None"}
    /\ Blank

\* A read of standard input: a line while lines remain, else end-of-input;
\* the user may interrupt instead.
StdinTokens(lines) == {Line(l) : l \in IF stdinRead < MaxLines THEN lines ELSE {}} \cup {EOF, INT}
Consume(tok) ==
    /\ lastRead' = tok
    /\ stdinRead' = IF tok.t = "line" THEN stdinRead + 1 ELSE stdinRead

\* An exception nothing catches: traceback, non-zero exit status.
Uncaught(e) ==
    /\ pc' = "exited"
    /\ exc' = e
    /\ exitStatus' = 1
\* search_and_play returns r; main goes on to line 173.
SessionReturns(r) ==
    /\ ret' = r
    /\ pc' = "main_return"

\* Mutant: `if args.query is not None`.
HasQueryNotNone(q) == q # None
\* main, line 162: `if args.query`.
HasQuery(q) == Truthy(q)

\* main, lines 162-164: a truthy positional query is used as it is.
MainQuery ==
    /\ pc = "main"
    /\ IF HasQuery(args.query)
       THEN query' = args.query.s /\ pc' = "session"
       ELSE query' = query /\ pc' = "query_prompt"
    /\ UNCHANGED <<args, YTMusic, results, searchExc, songs, idx, lastRead, stdinRead, out, calls,
                   playArg, playEnv, ret, exc, exitStatus>>

\* main, lines 165-170: prompt for the query.
QueryPrompt ==
    /\ pc = "query_prompt"
    /\ \E tok \in StdinTokens(QueryLines) :
        /\ Consume(tok)
        /\ CASE tok.t = "EOF" -> pc' = "exited" /\ exitStatus' = 0 /\ UNCHANGED <<query, exc>>
             [] tok.t = "INT" -> Uncaught(Raise("KeyboardInterrupt", "")) /\ UNCHANGED query
             [] OTHER ->
                 /\ query' = Strip(tok.s)
                 /\ IF Strip(tok.s) = <<>>
                    THEN pc' = "exited" /\ exitStatus' = 0
                    ELSE pc' = "session" /\ exitStatus' = exitStatus
                 /\ exc' = exc
    /\ UNCHANGED <<args, YTMusic, results, searchExc, songs, idx, out, calls, playArg, playEnv, ret>>

\* Mutant: the query is tested without being stripped.
IsEmptyQueryUnstripped(q) == q = <<>>
\* search_and_play, line 115: `if not query.strip()`.
IsEmptyQuery(q) == Strip(q) = <<>>

\* search_and_play, lines 113-117: reject a query that strips to nothing.
SessionEntry ==
    /\ pc = "session"
    /\ calls' = Bump(calls, "session")
    /\ IF IsEmptyQuery(query)
       THEN /\ out' = out \o <<Msg("Empty query.")>>
            /\ SessionReturns(None)
       ELSE /\ out' = out
            /\ pc' = "search"
            /\ ret' = ret
    /\ UNCHANGED <<args, YTMusic, query, results, searchExc, songs, idx, lastRead, stdinRead,
                   playArg, playEnv, exc, exitStatus>>

\* Mutant: the empty result is not detected.
NoSongsUnchecked(found) == FALSE
\* search_and_play, line 125: `if not songs`.
NoSongs(found) == found = <<>>

\* What follows the provider's return at lines 125-131.
AfterSearch(found, c) ==
    /\ songs' = found
    /\ searchExc' = NoExc
    /\ calls' = c
    /\ exc' = exc
    /\ exitStatus' = exitStatus
    /\ IF NoSongs(found)
       THEN /\ out' = out \o <<Msg("No results found.")>>
            /\ SessionReturns(None)
       ELSE /\ out' = out \o <<Msg("Top Results:")>> \o Listing(found)
            /\ pc' = "choose"
            /\ ret' = ret
\* What follows an exception of the provider at lines 121-123.
SearchRaised(e, c) ==
    /\ songs' = songs
    /\ searchExc' = e
    /\ calls' = c
    /\ IF IsException(e.cls)
       THEN /\ out' = out \o <<MsgD("Error while searching: {}", <<e.msg>>)>>
            /\ SessionReturns(None)
            /\ UNCHANGED <<exc, exitStatus>>
       ELSE /\ Uncaught(e)
            /\ UNCHANGED <<out, ret>>

\* search_and_play, lines 119-131, with the mock provider.
SearchMock ==
    /\ pc = "search"
    /\ args.mock
    /\ AfterSearch(search_with_mock(query, args.limit), Bump(calls, "mock"))
    /\ UNCHANGED <<args, YTMusic, query, results, idx, lastRead, stdinRead, playArg, playEnv>>

\* search_and_play, lines 119-131, with the live provider (lines 37-58).
SearchLive ==
    /\ pc = "search"
    /\ ~args.mock
    /\ IF YTMusic = "None"
       THEN /\ SearchRaised(Raise("RuntimeError", "ytmusicapi not installed. Run: pip install ytmusicapi"),
                            Bump(calls, "ytm"))
            /\ results' = results
       ELSE \E o \in SearchOutcomes :
            /\ results' = o.results
            /\ IF o.exc # NoExc
               THEN SearchRaised(o.exc, Bump(calls, "ytm"))
               ELSE AfterSearch(search_with_ytmusic(o.results, args.limit), Bump(calls, "ytm"))
    /\ UNCHANGED <<args, YTMusic, query, idx, lastRead, stdinRead, playArg, playEnv>>

\* Mutant: the auto flag is ignored.
choose_song_entry_no_auto(list, auto) ==
    IF list = <<>> THEN [done |-> TRUE, idx |-> None]
    ELSE [done |-> FALSE, idx |-> None]
\* choose_song, lines 75-78: what is decided before any prompt.
\* done: whether choose_song returns at once; idx: what it returns then.
choose_song_entry(list, auto) ==
    IF list = <<>> THEN [done |-> TRUE, idx |-> None]
    ELSE IF auto THEN [done |-> TRUE, idx |-> PyInt(0)]
    ELSE [done |-> FALSE, idx |-> None]

\* choose_song, lines 75-82: up to the first prompt.
ChooseSong ==
    /\ pc = "choose"
    /\ calls' = Bump(calls, "choose")
    /\ LET e == choose_song_entry(songs, args.auto) IN
       /\ idx' = e.idx
       /\ IF e.done
          THEN pc' = "chosen" /\ out' = out
          ELSE pc' = "select" /\ out' = out \o <<Msg("Select a song:")>> \o Listing(songs)
    /\ UNCHANGED <<args, YTMusic, query, results, searchExc, songs, lastRead, stdinRead, playArg,
                   playEnv, ret, exc, exitStatus>>

\* Mutant: the range test reads `0 <= idx <= len(songs)`.
SelectTurnOffByOne(choice, n) ==
    IF choice = <<>>
    THEN [done |-> TRUE, idx |-> None, out |-> <<>>]
    ELSE LET p == ParseInt(choice) IN
         IF ~p.ok
         THEN [done |-> FALSE, idx |-> None, out |-> <<Msg("Please enter a valid number.")>>]
         ELSE IF 0 <= p.val - 1 /\ p.val - 1 <= n
         THEN [done |-> TRUE, idx |-> PyInt(p.val - 1), out |-> <<>>]
         ELSE [done |-> FALSE, idx |-> None, out |-> <<Msg("Invalid choice. Try again.")>>]
\* choose_song, lines 89-97: one turn of the loop on the stripped line.
\* Result: whether the loop ends, the index returned, the line printed.
SelectTurn(choice, n) ==
    IF choice = <<>>
    THEN [done |-> TRUE, idx |-> None, out |-> <<>>]
    ELSE LET p == ParseInt(choice) IN
         IF ~p.ok
         THEN [done |-> FALSE, idx |-> None, out |-> <<Msg("Please enter a valid number.")>>]
         ELSE IF 0 <= p.val - 1 /\ p.val - 1 < n
         THEN [done |-> TRUE, idx |-> PyInt(p.val - 1), out |-> <<>>]
         ELSE [done |-> FALSE, idx |-> None, out |-> <<Msg("Invalid choice. Try again.")>>]

\* choose_song, lines 84-97: one prompt.
SelectPrompt ==
    /\ pc = "select"
    /\ \E tok \in StdinTokens(SelectLines) :
        /\ Consume(tok)
        /\ calls' = Bump(calls, "reads")
        /\ CASE tok.t = "EOF" -> idx' = None /\ pc' = "chosen" /\ UNCHANGED <<out, exc, exitStatus>>
             [] tok.t = "INT" -> Uncaught(Raise("KeyboardInterrupt", "")) /\ UNCHANGED <<idx, out>>
             [] OTHER ->
                 LET r == SelectTurn(Strip(tok.s), Len(songs)) IN
                 /\ idx' = r.idx
                 /\ out' = out \o r.out
                 /\ pc' = IF r.done THEN "chosen" ELSE "select"
                 /\ UNCHANGED <<exc, exitStatus>>
    /\ UNCHANGED <<args, YTMusic, query, results, searchExc, songs, playArg, playEnv, ret>>

\* Mutant: the index is taken as 1-based.
SelectedOneBased(list, i) == list[IF i = 0 THEN Len(list) ELSE i]
\* search_and_play, line 138: `selected = songs[idx]`.
Selected(list, i) == list[i + 1]

\* search_and_play, lines 134-144: after choose_song returned.
Chosen ==
    /\ pc = "chosen"
    /\ IF idx = None
       THEN /\ out' = out \o <<Msg("No song selected.")>>
            /\ SessionReturns(None)
       ELSE LET selected == Selected(songs, idx.v)
                shown == <<MsgD("Selected: {} - {}", <<selected.title, selected.artist>>),
                           MsgD("URL: {}", <<selected.url>>)>>
            IN IF args.no_play
               THEN /\ out' = out \o shown \o <<Msg("--no-play enabled, not launching mpv.")>>
                    /\ SessionReturns(Returned(selected))
               ELSE /\ out' = out \o shown
                    /\ pc' = "play"
                    /\ ret' = ret
    /\ UNCHANGED <<args, YTMusic, query, results, searchExc, songs, idx, lastRead, stdinRead, calls,
                   playArg, playEnv, exc, exitStatus>>

\* search_and_play, lines 146-150: play the selected song.
Play ==
    /\ pc = "play"
    /\ \E found \in BOOLEAN, run \in RunOutcomes :
        LET selected == Selected(songs, idx.v)
            p == play_with_mpv(found, run)
        IN /\ playArg' = S(selected.url)
           /\ playEnv' = [t |-> "env", found |-> found, run |-> run]
           /\ calls' = [calls EXCEPT !.play = @ + 1, !.launched = @ + (IF p.launched THEN 1 ELSE 0)]
           /\ IF p.exc = NoExc
              THEN /\ out' = out \o p.out
                   /\ SessionReturns(Returned(selected))
                   /\ UNCHANGED <<exc, exitStatus>>
              ELSE IF IsException(p.exc.cls)
              THEN /\ out' = out \o p.out \o <<MsgD("Failed to play: {}", <<p.exc.msg>>)>>
                   /\ SessionReturns(Returned(selected))
                   /\ UNCHANGED <<exc, exitStatus>>
              ELSE /\ out' = out \o p.out
                   /\ Uncaught(p.exc)
                   /\ ret' = ret
    /\ UNCHANGED <<args, YTMusic, query, results, searchExc, songs, idx, lastRead, stdinRead>>

\* main, line 173.
MainReturn ==
    /\ pc = "main_return"
    /\ pc' = "exited"
    /\ exitStatus' = 0
    /\ UNCHANGED <<args, YTMusic, query, results, searchExc, songs, idx, lastRead, stdinRead, out,
                   calls, playArg, playEnv, ret, exc>>

Next ==
    \/ MainQuery
    \/ QueryPrompt
    \/ SessionEntry
    \/ SearchMock
    \/ SearchLive
    \/ ChooseSong
    \/ SelectPrompt
    \/ Chosen
    \/ Play
    \/ MainReturn

Spec == Init /\ [][Next]_vars

\* ------------------------------------------------ the providers on their own
DefaultArgs(limit) == [query |-> None, mock |-> FALSE, limit |-> limit, auto |-> FALSE, no_play |-> FALSE]

\* search_with_mock(query, limit) for each query and each --limit choice.
InitMock ==
    /\ pc = "mock_call"
    /\ \E q \in MockQueries, l \in LimitChoices :
        /\ args = [DefaultArgs(l) EXCEPT !.mock = TRUE]
        /\ query = q
    /\ YTMusic = "None"
    /\ results = None /\ searchExc = NoExc /\ songs = <<>> /\ idx = None /\ lastRead = None
    /\ stdinRead = 0 /\ out = <<>> /\ calls = NoCalls /\ playArg = None /\ playEnv = None
    /\ ret = None /\ exc = NoExc /\ exitStatus = -1
MockCall ==
    /\ pc = "mock_call"
    /\ songs' = search_with_mock(query, args.limit)
    /\ calls' = Bump(calls, "mock")
    /\ pc' = "mock_done"
    /\ UNCHANGED <<args, YTMusic, query, results, searchExc, idx, lastRead, stdinRead, out, playArg,
                   playEnv, ret, exc, exitStatus>>
SpecMock == InitMock /\ [][MockCall]_vars

\* search_with_ytmusic on each list the catalog may return, for each --limit choice.
InitLive ==
    /\ pc = "live_call"
    /\ \E l \in LimitChoices : args = DefaultArgs(l)
    /\ results \in {None} \cup {List(c) : c \in SeqsUpTo(LiveItems, MaxLiveCatalog)}
    /\ YTMusic = "class"
    /\ query = <<"a">> /\ searchExc = NoExc /\ songs = <<>> /\ idx = None /\ lastRead = None
    /\ stdinRead = 0 /\ out = <<>> /\ calls = NoCalls /\ playArg = None /\ playEnv = None
    /\ ret = None /\ exc = NoExc /\ exitStatus = -1
LiveCall ==
    /\ pc = "live_call"
    /\ songs' = search_with_ytmusic(results, args.limit)
    /\ calls' = Bump(calls, "ytm")
    /\ pc' = "live_done"
    /\ UNCHANGED <<args, YTMusic, query, results, searchExc, idx, lastRead, stdinRead, out, playArg,
                   playEnv, ret, exc, exitStatus>>
SpecLive == InitLive /\ [][LiveCall]_vars

\* ------------------------------------------------------------------ claims
HasMsg(text) == \E i \in DOMAIN out : out[i].text = text
LastMsg == IF out = <<>> THEN "" ELSE out[Len(out)].text
SessionOver == pc \in {"main_return", "exited"}
\* No interrupt was delivered at a prompt or during the search call.
NoStrayInterrupt == lastRead # INT /\ searchExc.cls # "KeyboardInterrupt"

\* C1: whatever the query prompt, the provider, the selection and the player
\* do (blank or end-of-input, provider missing, search exception, no results,
\* cancelled selection, suppressed playback, player missing, non-zero exit,
\* interrupt during playback, other playback exception), no exception leaves
\* search_and_play and main ends with exit status 0.
C1_ExitStatusZero ==
    NoStrayInterrupt =>
        /\ exc = NoExc
        /\ exitStatus \in {-1, 0}
        /\ pc = "exited" => exitStatus = 0
C1_Witness ==
    /\ pc = "exited"
    /\ exitStatus = 0
    /\ playEnv # None
    /\ playEnv.found
    /\ playEnv.run.cls = "KeyboardInterrupt"

\* C2: with --no-play, play_with_mpv is never entered, and once choose_song
\* has returned an index search_and_play returns the descriptor at that index.
C2_NoPlay ==
    args.no_play =>
        /\ calls.play = 0
        /\ playArg = None
        /\ pc # "play"
        /\ (idx # None /\ SessionOver) => ret = Returned(songs[idx.v + 1])
C2_Witness ==
    /\ args.no_play
    /\ pc = "exited"
    /\ idx = PyInt(1)
    /\ ret = Returned(songs[2])

\* C3: a query that is empty once stripped makes search_and_play print
\* "Empty query." and return None, with no provider call, no selection and
\* no playback.
C3_EmptyQuery ==
    (calls.session > 0 /\ Strip(query) = <<>>) =>
        /\ out = <<Msg("Empty query.")>>
        /\ ret = None
        /\ SessionOver
        /\ calls.mock = 0 /\ calls.ytm = 0
        /\ calls.choose = 0 /\ calls.reads = 0
        /\ calls.play = 0
C3_Witness ==
    /\ calls.session = 1
    /\ query = <<" ">>
    /\ pc = "exited"

\* C4: when the provider returns an empty sequence, search_and_play prints
\* "No results found." and returns None; choose_song is not entered, it reads
\* no line of standard input, and play_with_mpv is not entered.
ProviderReturned == calls.mock + calls.ytm > 0 /\ searchExc = NoExc
C4_NoResults ==
    (ProviderReturned /\ songs = <<>>) =>
        /\ LastMsg = "No results found."
        /\ ret = None
        /\ SessionOver
        /\ calls.choose = 0 /\ calls.reads = 0
        /\ calls.play = 0
C4_Witness ==
    /\ ProviderReturned
    /\ songs = <<>>
    /\ results # None
    /\ Len(results.l) = 2
    /\ pc = "exited"

\* C5: without --auto, choose_song reads one line per prompt; a line that is
\* not a number, or a number outside 1..N, is reported and the loop prompts
\* again; the loop ends only on a number v in 1..N (returning v-1, which lies
\* in 0..N-1), on a blank line or on end-of-input (both returning None).
RetryReports ==
    Cardinality({i \in DOMAIN out : out[i].text \in {"Please enter a valid number.",
                                                      "Invalid choice. Try again."}})
LastIsLine == lastRead.t = "line"
LastNumber == ParseInt(Strip(lastRead.s))
C5_SelectionLoop ==
    (calls.reads > 0 /\ pc \in {"select", "chosen"}) =>
        /\ pc = "select" =>
            /\ LastIsLine
            /\ Strip(lastRead.s) # <<>>
            /\ \/ ~LastNumber.ok /\ LastMsg = "Please enter a valid number."
               \/ /\ LastNumber.ok
                  /\ LastNumber.val \notin 1..Len(songs)
                  /\ LastMsg = "Invalid choice. Try again."
            /\ idx = None
            /\ RetryReports = calls.reads
        /\ (pc = "chosen" /\ idx # None) =>
            /\ LastIsLine
            /\ LastNumber.ok
            /\ LastNumber.val \in 1..Len(songs)
            /\ idx = PyInt(LastNumber.val - 1)
            /\ idx.v \in 0..(Len(songs) - 1)
            /\ RetryReports = calls.reads - 1
        /\ (pc = "chosen" /\ idx = None) =>
            /\ lastRead = EOF \/ (LastIsLine /\ Strip(lastRead.s) = <<>>)
            /\ RetryReports = calls.reads - 1
C5_Witness ==
    /\ pc = "chosen"
    /\ idx = PyInt(2)
    /\ calls.reads = 3
    /\ HasMsg("Invalid choice. Try again.")
    /\ HasMsg("Please enter a valid number.")

\* C6: with --auto and a non-empty result sequence, choose_song returns
\* index 0 and reads nothing from standard input.
C6_AutoSelect ==
    (args.auto /\ calls.choose > 0 /\ Len(songs) > 0) =>
        /\ idx = PyInt(0)
        /\ calls.reads = 0
        /\ pc # "select"
        /\ calls.choose = 1
C6_Witness ==
    /\ args.auto
    /\ pc = "chosen"
    /\ Len(songs) = 3
    /\ idx = PyInt(0)
    /\ stdinRead = 0

\* C7: search_with_mock(q, L), L in {1,3,5,7,10}, returns exactly L
\* descriptors, the i-th titled "{q} (Mock {i})" by "Mock Artist {i}", with
\* pairwise distinct urls.
Decimal == <<<<"1">>, <<"2">>, <<"3">>, <<"4">>, <<"5">>, <<"6">>, <<"7">>, <<"8">>, <<"9">>, <<"1", "0">>>>
C7_MockResults ==
    pc = "mock_done" =>
        /\ Len(songs) = args.limit
        /\ \A i \in 1..args.limit :
            /\ songs[i].title = query \o <<" ", "(", "M", "o", "c", "k", " ">> \o Decimal[i] \o <<")">>
            /\ songs[i].artist = <<"M", "o", "c", "k", " ", "A", "r", "t", "i", "s", "t", " ">> \o Decimal[i]
        /\ \A i, j \in 1..Len(songs) : i # j => songs[i].url # songs[j].url
C7_Witness ==
    /\ pc = "mock_done"
    /\ args.limit = 10
    /\ Len(songs) = 10
    /\ Len(query) = 2

\* C8: main enters search_and_play exactly once when it has a query, and not
\* at all when there is no positional query and the prompt yields a blank
\* line or end-of-input: then the process ends at once with status 0 and no
\* search.
C8_SessionOnce ==
    /\ calls.session <= 1
    /\ (pc \notin {"main", "query_prompt", "session"} /\ query # <<>>) => calls.session = 1
    /\ (pc = "exited" /\ query = <<>> /\ lastRead # INT) =>
        /\ ~Truthy(args.query)
        /\ lastRead = EOF \/ (LastIsLine /\ Strip(lastRead.s) = <<>>)
        /\ calls.session = 0
        /\ exitStatus = 0
        /\ calls.mock = 0 /\ calls.ytm = 0
        /\ out = <<>>
C8_Witness ==
    /\ pc = "exited"
    /\ args.query = S(<<>>)
    /\ lastRead = Line(<<" ">>)
    /\ calls.session = 0
    /\ exitStatus = 0

\* C9: when choose_song returned k and playback is not suppressed,
\* play_with_mpv is entered exactly once, after the selection, with the url of
\* songs[k], and search_and_play returns songs[k] whatever the player does:
\* binary missing (nothing launched, "Failed to play"), non-zero exit (only
\* reported), interrupt (clean stop), another exception, or success.
C9_PlaySelected ==
    /\ calls.play <= 1
    /\ calls.play > 0 => (idx # None /\ playArg = S(songs[idx.v + 1].url))
    /\ (~args.no_play /\ idx # None /\ SessionOver) =>
        /\ calls.play = 1
        /\ ret = Returned(songs[idx.v + 1])
        /\ exc = NoExc
        /\ ~playEnv.found => (calls.launched = 0 /\ LastMsg = "Failed to play: {}")
        /\ playEnv.found =>
            /\ calls.launched = 1
            /\ playEnv.run.cls = "CalledProcessError" =>
                (LastMsg = "mpv exited with error code {}" /\ ~HasMsg("Failed to play: {}"))
            /\ playEnv.run.cls = "KeyboardInterrupt" =>
                (LastMsg = "Stopped by user." /\ ~HasMsg("Failed to play: {}"))
            /\ playEnv.run.cls = "OSError" => LastMsg = "Failed to play: {}"
            /\ playEnv.run = NoExc => LastMsg = "URL: {}"
C9_Witness ==
    /\ pc = "exited"
    /\ playEnv # None
    /\ ~playEnv.found
    /\ idx = PyInt(1)
    /\ ret = Returned(songs[2])
    /\ playArg = S(songs[2].url)

\* C10: search_with_ytmusic returns at most L descriptors: one for each of the
\* first L catalog items that has an identifier, in catalog order, none for an
\* item without one; the title is the placeholder when the item has none, the
\* artist is the placeholder when the artist list is absent, empty or its
\* first entry is malformed.
CatalogItems == IF results = None THEN <<>> ELSE results.l
Kept(items, limit) == {i \in 1..Len(items) : i <= limit /\ items[i].videoId # None /\ items[i].videoId.s # <<>>}
Rank(K, i) == Cardinality({j \in K : j <= i})
FirstArtistNamed(a) ==
    /\ a # None
    /\ a.l # <<>>
    /\ a.l[1].t = "dict"
    /\ a.l[1].name # None
    /\ a.l[1].name.s # <<>>
C10_LiveResults ==
    pc = "live_done" =>
        LET K == Kept(CatalogItems, args.limit) IN
        /\ Len(songs) <= args.limit
        /\ Len(songs) = Cardinality(K)
        /\ \A i \in K :
            LET d == songs[Rank(K, i)]
                it == CatalogItems[i]
            IN /\ d.url = UrlPrefix \o it.videoId.s
               /\ it.title = None => d.title = UnknownTitle
               /\ (it.title # None /\ it.title.s # <<>>) => d.title = it.title.s
               /\ ~FirstArtistNamed(it.artists) => d.artist = UnknownArtist
               /\ FirstArtistNamed(it.artists) => d.artist = it.artists.l[1].name.s
C10_Witness ==
    /\ pc = "live_done"
    /\ args.limit = 1
    /\ results # None
    /\ Len(results.l) = 2
    /\ results.l[1].videoId = None
    /\ results.l[2].videoId # None
    /\ songs = <<>>

====
